---- MODULE Spec2Model ----
(***************************************************************************)
(* Model of drawer/main.py: the plotting script of anomaly_detector_sr.    *)
(*                                                                         *)
(* main() is a straight-line script.  Each statement that reads a column,  *)
(* parses timestamps, touches the figure or performs I/O is one action;    *)
(* pc names the statement that runs next.  An uncaught exception ends the  *)
(* process (pc = "failed", exit status 1).                                 *)
(*                                                                         *)
(* Numbers: a float x of the CSV or of the command line is the integer     *)
(* 1000 * x (thousandths), so 0.95 is 950 and value / 1000 is an exact     *)
(* integer division for the values used.  Lengths of the figure are in     *)
(* tenths of an inch, so 12.8 is 128.                                      *)
(***************************************************************************)
EXTENDS Integers, Sequences, FiniteSets, TLC

VARIABLES
    args,            \* argparse namespace: path, name, threshold, output, show
    channels,        \* what each input channel holds: "<stdin>" and the named file
    inferFormat,     \* TRUE: pandas >= 2.0 (one format per to_datetime call, taken from the first element)
    pc,              \* the statement of main() to run next
    data,            \* DataFrame returned by pd.read_csv
    anomaly_points,  \* DataFrame data[data["output"] == 1]
    t_anomalies,     \* parsed anomaly_points["Time"]
    t,               \* parsed data["Time"]
    fig,             \* the Figure with its Axes
    ax,              \* the variable ax: index of an Axes of fig
    axs,             \* the list axs: indices of Axes of fig
    k,               \* position of the loop "for ax in axs"
    accessed,        \* history: the column names looked up so far, in order
    reads,           \* history: number of pd.read_csv calls
    saved,           \* the images written by plt.savefig, in order
    shown,           \* the figures presented by plt.show, in order
    exit,            \* <<>> while running, <<status>> once the process ended
    error,           \* the uncaught exception, if any
    run,             \* number of the current invocation of the program
    prev             \* outcome of the previous invocation (SpecPair only)

vars == <<args, channels, inferFormat, pc, data, anomaly_points, t_anomalies, t,
          fig, ax, axs, k, accessed, reads, saved, shown, exit, error, run, prev>>

----------------------------------------------------------------------------
(* Bounds of the model *)

MaxRows == 2          \* rows of a CSV that has all five columns
MaxRowsPartial == 1   \* rows of a CSV that lacks some column

----------------------------------------------------------------------------
(* Inputs *)

Columns == {"Time", "value", "saliency", "score", "output"}

\* Three spellings of a Time cell: day first (13 is no month), ambiguous
\* (1 February or 2 January), and text that is no date at all.
TimeStrings == {"13/01/2024", "01/02/2024", "bogus"}

Outputs == {0, 1, 2}

\* The numeric cells of the i-th row (thousandths): distinct in every row and column.
Measurement(i) ==
    [value |-> 1000000 * i, saliency |-> 100 * i + 3, score |-> 100 * i + 50]

FullRow(i, time, out) ==
    [c \in Columns |->
        CASE c = "Time" -> time
          [] c = "output" -> out
          [] c = "value" -> Measurement(i).value
          [] c = "saliency" -> Measurement(i).saliency
          [] OTHER -> Measurement(i).score]

Cells == TimeStrings \X Outputs

TablesUpTo(n) == UNION {[1..m -> Cells] : m \in 0..n}

\* A CSV text with header cols and one line per element of cells.
Csv(cols, cells) ==
    [readable |-> TRUE,
     columns |-> cols,
     rows |-> [i \in 1..Len(cells) |->
                 [c \in cols |-> FullRow(i, cells[i][1], cells[i][2])[c]]]]

\* A missing file, an empty stream, or text the CSV parser rejects.
Unreadable == [readable |-> FALSE, columns |-> {}, rows |-> <<>>]

Contents ==
    {Csv(Columns, cells) : cells \in TablesUpTo(MaxRows)}
    \cup {Csv(cols, cells) : cols \in SUBSET Columns, cells \in TablesUpTo(MaxRowsPartial)}
    \cup {Unreadable}

Stdin == "<stdin>"
Paths == {"-", "data.csv"}
Names == {"value", "cpu"}
\* --threshold: <<>> when the option is absent, <<T>> when given (thousandths)
Thresholds == {<<>>, <<0>>, <<-1000>>, <<900>>}

----------------------------------------------------------------------------
(* pandas: DataFrame, column lookup, boolean mask, to_datetime *)

EmptyFrame == [columns |-> {}, index |-> <<>>, rows |-> <<>>]

\* pd.read_csv on readable text: a frame with a RangeIndex 0..n-1
Frame(content) ==
    [columns |-> content.columns,
     index |-> [i \in 1..Len(content.rows) |-> i - 1],
     rows |-> content.rows]

HasColumn(frame, c) == c \in frame.columns

\* frame[c] for a column that exists: the values, in row order
Column(frame, c) == [i \in 1..Len(frame.rows) |-> frame.rows[i][c]]

RECURSIVE SelectIdx(_, _)
SelectIdx(mask, i) ==
    IF i > Len(mask) THEN <<>>
    ELSE (IF mask[i] THEN <<i>> ELSE <<>>) \o SelectIdx(mask, i + 1)

\* frame[mask]: the rows whose mask is True, with their index labels kept
Select(frame, mask) ==
    LET keep == SelectIdx(mask, 1) IN
    [columns |-> frame.columns,
     index |-> [j \in 1..Len(keep) |-> frame.index[keep[j]]],
     rows |-> [j \in 1..Len(keep) |-> frame.rows[keep[j]]]]

\* Variant of EqOne: every nonzero flag counts as an anomaly
NonZero(v) == v # 0

\* series == 1
EqOne(v) == v = 1

\* Variant of DivScalar: the division is left out
Undivided(ys, d) == ys

\* series / 1000
DivScalar(ys, d) == [i \in 1..Len(ys) |-> ys[i] \div d]

\* The two numeric fields of "a/b/2024"; 0 when the text has none.
Field1(s) == CASE s = "13/01/2024" -> 13 [] s = "01/02/2024" -> 1 [] OTHER -> 0
Field2(s) == CASE s = "13/01/2024" -> 1 [] s = "01/02/2024" -> 2 [] OTHER -> 0

NoTime == [ok |-> FALSE, month |-> 0, day |-> 0]
Stamp(m, d) == [ok |-> TRUE, month |-> m, day |-> d]

\* dateutil's parse with dayfirst=False: month first unless that is impossible
DateutilParse(s) ==
    LET a == Field1(s)
        b == Field2(s)
    IN  IF a \in 1..12 /\ b \in 1..31 THEN Stamp(a, b)
        ELSE IF b \in 1..12 /\ a \in 1..31 THEN Stamp(b, a)
        ELSE NoTime

\* pandas' guess of the strftime format of one string
GuessFormat(s) ==
    LET p == DateutilParse(s) IN
    IF ~p.ok THEN "none"
    ELSE IF p.month = Field1(s) THEN "%m/%d/%Y" ELSE "%d/%m/%Y"

Strptime(s, fmt) ==
    LET a == Field1(s)
        b == Field2(s)
    IN  IF fmt = "%m/%d/%Y"
        THEN (IF a \in 1..12 /\ b \in 1..31 THEN Stamp(a, b) ELSE NoTime)
        ELSE (IF b \in 1..12 /\ a \in 1..31 THEN Stamp(b, a) ELSE NoTime)

\* Variant of ToDatetime: errors="coerce", no element ever makes the call raise
ToDatetimeCoerce(strs) ==
    [i \in 1..Len(strs) |-> [DateutilParse(strs[i]) EXCEPT !.ok = TRUE]]

\* pd.to_datetime(series of strings): the parsed elements; it raises when
\* some element has ok = FALSE.
ToDatetime(strs) ==
    LET fmt == IF inferFormat /\ Len(strs) > 0 THEN GuessFormat(strs[1]) ELSE "none"
    IN  [i \in 1..Len(strs) |->
            IF fmt = "none" THEN DateutilParse(strs[i]) ELSE Strptime(strs[i], fmt)]

AllParsed(ts) == \A i \in 1..Len(ts) : ts[i].ok

----------------------------------------------------------------------------
(* matplotlib: Figure, Axes, Line2D, locators *)

FigWidth == 128
FigHeight == 96
GridRows == 3
GridCols == 1

NoFigure == [figsize |-> <<0, 0>>, axes |-> <<>>]

\* plt.figure(figsize=[w, h])
NewFigure(w, h) == [figsize |-> <<w, h>>, axes |-> <<>>]

AutoLocator == [kind |-> "AutoLocator", byhour |-> {}, interval |-> 0]

\* mdates.HourLocator(byhour, interval); byhour=None stands for every hour
HourLocator(byhour, interval) ==
    [kind |-> "HourLocator", byhour |-> byhour, interval |-> interval]

EveryHour == 0..23

\* fig.add_subplot(nrows, ncols, index): a fresh Axes in cell index of the grid
NewAxes(nrows, ncols, index) ==
    [geometry |-> <<nrows, ncols, index>>,
     title |-> "",
     lines |-> <<>>,
     hlines |-> <<>>,
     major |-> AutoLocator,
     minor |-> AutoLocator,
     formatter |-> "auto",
     ticklabels |-> [visible |-> TRUE, rotation |-> 0, ha |-> "center"]]

\* The part of the figure that the grid gives to one Axes: the figure is
\* divided into nrows x ncols cells, and the Axes lies inside its cell.
CellSize(f, a) == <<f.figsize[1] \div a.geometry[2], f.figsize[2] \div a.geometry[1]>>

\* ax.plot(x, y): a connected line in the default colour, without markers
Line(x, y) == [x |-> x, y |-> y, marker |-> "None", linestyle |-> "-", color |-> "C0"]

\* ax.plot(x, y, marker="o", linestyle="None", color="red")
Markers(x, y) == [x |-> x, y |-> y, marker |-> "o", linestyle |-> "None", color |-> "red"]

\* ax.axhline(y=y, color="red", linestyle="--")
HLine(y) == [y |-> y, color |-> "red", linestyle |-> "--"]

\* Python truth value of args.threshold: None and 0.0 are false
Truthy(threshold) == threshold # <<>> /\ threshold[1] # 0

\* True on the Axes of the bottom row of the grid
IsLastRow(a) == a.geometry[3] > (a.geometry[1] - 1) * a.geometry[2]

----------------------------------------------------------------------------
(* The process *)

NoError == [class |-> "", key |-> ""]

\* An exception nobody catches: traceback, exit status 1
Raise(class, key) ==
    /\ pc' = "failed"
    /\ exit' = <<1>>
    /\ error' = [class |-> class, key |-> key]

Goto(next) ==
    /\ pc' = next
    /\ UNCHANGED <<exit, error>>

\* The channel on which the user supplies the CSV for a given path argument
ChannelFor(path) == IF path = "-" THEN Stdin ELSE path

ChannelNames == {Stdin} \cup Paths

\* Variant of Source: the path is handed to read_csv as it is
SourceLiteral(path) == path

\* lines 38-42: src
Source(path) == IF path = "-" THEN Stdin ELSE path

NoPrev == [fig |-> NoFigure, error |-> NoError, pc |-> "", path |-> ""]

Start(a, content, infer) ==
    /\ args = a
    /\ channels = [c \in ChannelNames |->
                     IF c = ChannelFor(a.path) THEN content ELSE Unreadable]
    /\ inferFormat = infer
    /\ pc = "read_csv"
    /\ data = EmptyFrame
    /\ anomaly_points = EmptyFrame
    /\ t_anomalies = <<>>
    /\ t = <<>>
    /\ fig = NoFigure
    /\ ax = 0
    /\ axs = <<>>
    /\ k = 0
    /\ accessed = <<>>
    /\ reads = 0
    /\ saved = <<>>
    /\ shown = <<>>
    /\ exit = <<>>
    /\ error = NoError
    /\ run = 1
    /\ prev = NoPrev

ArgSpace ==
    [path : Paths, name : Names, threshold : Thresholds,
     output : {"output.png"}, show : BOOLEAN]

Init ==
    \E a \in ArgSpace, content \in Contents, infer \in BOOLEAN :
        Start(a, content, infer)

env == <<args, channels, inferFormat, run, prev>>

\* line 45: data = pd.read_csv(src)
ReadCsv ==
    /\ pc = "read_csv"
    /\ reads' = reads + 1
    /\ LET content == channels[Source(args.path)] IN
       IF content.readable
       THEN data' = Frame(content) /\ Goto("filter")
       ELSE Raise("ParserError", "") /\ UNCHANGED data
    /\ UNCHANGED <<env, anomaly_points, t_anomalies, t, fig, ax, axs, k,
                   accessed, saved, shown>>

\* line 46: anomaly_points = data[data["output"] == 1]
Filter ==
    /\ pc = "filter"
    /\ accessed' = Append(accessed, "output")
    /\ IF HasColumn(data, "output")
       THEN /\ anomaly_points' =
                 Select(data, [i \in 1..Len(data.rows) |-> EqOne(Column(data, "output")[i])])
            /\ Goto("to_datetime_anomalies")
       ELSE Raise("KeyError", "output") /\ UNCHANGED anomaly_points
    /\ UNCHANGED <<env, data, t_anomalies, t, fig, ax, axs, k, reads, saved, shown>>

\* line 47: t_anomalies = pd.to_datetime(anomaly_points["Time"])
ToDatetimeAnomalies ==
    /\ pc = "to_datetime_anomalies"
    /\ accessed' = Append(accessed, "Time")
    /\ IF ~HasColumn(anomaly_points, "Time")
       THEN Raise("KeyError", "Time") /\ UNCHANGED t_anomalies
       ELSE LET ts == ToDatetime(Column(anomaly_points, "Time")) IN
            IF AllParsed(ts)
            THEN t_anomalies' = ts /\ Goto("figure")
            ELSE Raise("ValueError", "Time") /\ UNCHANGED t_anomalies
    /\ UNCHANGED <<env, data, anomaly_points, t, fig, ax, axs, k, reads, saved, shown>>

\* line 49: fig = plt.figure(figsize=[12.8, 9.6])
Figure ==
    /\ pc = "figure"
    /\ fig' = NewFigure(FigWidth, FigHeight)
    /\ Goto("to_datetime")
    /\ UNCHANGED <<env, data, anomaly_points, t_anomalies, t, ax, axs, k,
                   accessed, reads, saved, shown>>

\* line 50: t = pd.to_datetime(data["Time"])
ToDatetimeAll ==
    /\ pc = "to_datetime"
    /\ accessed' = Append(accessed, "Time")
    /\ IF ~HasColumn(data, "Time")
       THEN Raise("KeyError", "Time") /\ UNCHANGED t
       ELSE LET ts == ToDatetime(Column(data, "Time")) IN
            IF AllParsed(ts)
            THEN t' = ts /\ Goto("subplot1")
            ELSE Raise("ValueError", "Time") /\ UNCHANGED t
    /\ UNCHANGED <<env, data, anomaly_points, t_anomalies, fig, ax, axs, k,
                   reads, saved, shown>>

\* The divisor of lines 56 and 59
Scale == 1000

\* Variant of AddSubplot: the grid is one row of three columns
AddSubplotColumns(f, index, title) ==
    [f EXCEPT !.axes = Append(@, [NewAxes(GridCols, GridRows, index) EXCEPT !.title = title])]

\* fig.add_subplot(3, 1, index) followed by ax.set_title(title)
AddSubplot(f, index, title) ==
    [f EXCEPT !.axes = Append(@, [NewAxes(GridRows, GridCols, index) EXCEPT !.title = title])]

\* ax.plot(x, y, ...) on the Axes that ax refers to
AddLine(f, a, line) == [f EXCEPT !.axes[a].lines = Append(@, line)]

\* One ax.plot statement: look the column up in frame (KeyError if absent),
\* divide when the statement does, plot against times (matplotlib raises
\* ValueError when x and y differ in length).
PlotColumn(here, frame, times, col, scaled, overlay, next) ==
    /\ pc = here
    /\ accessed' = Append(accessed, col)
    /\ IF ~HasColumn(frame, col)
       THEN Raise("KeyError", col) /\ UNCHANGED fig
       ELSE LET raw == Column(frame, col)
                ys == IF scaled THEN DivScalar(raw, Scale) ELSE raw
            IN  IF Len(times) # Len(ys)
                THEN Raise("ValueError", "shape") /\ UNCHANGED fig
                ELSE /\ fig' = AddLine(fig, ax, IF overlay THEN Markers(times, ys)
                                                 ELSE Line(times, ys))
                     /\ Goto(next)
    /\ UNCHANGED <<env, data, anomaly_points, t_anomalies, t, ax, axs, k,
                   reads, saved, shown>>

\* axs.append(ax)
AppendAx(here, next) ==
    /\ pc = here
    /\ axs' = Append(axs, ax)
    /\ Goto(next)
    /\ UNCHANGED <<env, data, anomaly_points, t_anomalies, t, fig, ax, k,
                   accessed, reads, saved, shown>>

\* lines 52-55: axs = []; ax = fig.add_subplot(3, 1, 1); ax.set_title(args.name)
Subplot1 ==
    /\ pc = "subplot1"
    /\ axs' = <<>>
    /\ fig' = AddSubplot(fig, 1, args.name)
    /\ ax' = Len(fig'.axes)
    /\ Goto("plot1")
    /\ UNCHANGED <<env, data, anomaly_points, t_anomalies, t, k,
                   accessed, reads, saved, shown>>

\* line 56: ax.plot(t, data["value"] / 1000)
Plot1 == PlotColumn("plot1", data, t, "value", TRUE, FALSE, "overlay1")

\* lines 57-63: ax.plot(t_anomalies, anomaly_points["value"] / 1000, red markers)
Overlay1 == PlotColumn("overlay1", anomaly_points, t_anomalies, "value", TRUE, TRUE, "append1")

\* line 64
Append1 == AppendAx("append1", "subplot2")

\* lines 66-67: ax = fig.add_subplot(3, 1, 2); ax.set_title("Saliency Map")
Subplot2 ==
    /\ pc = "subplot2"
    /\ fig' = AddSubplot(fig, 2, "Saliency Map")
    /\ ax' = Len(fig'.axes)
    /\ Goto("plot2")
    /\ UNCHANGED <<env, data, anomaly_points, t_anomalies, t, axs, k,
                   accessed, reads, saved, shown>>

\* Variant of Plot2: panel 2 draws the score column
Plot2Score == PlotColumn("plot2", data, t, "score", FALSE, FALSE, "overlay2")

\* line 68: ax.plot(t, data["saliency"])
Plot2 == PlotColumn("plot2", data, t, "saliency", FALSE, FALSE, "overlay2")

\* lines 69-75
Overlay2 == PlotColumn("overlay2", anomaly_points, t_anomalies, "saliency", FALSE, TRUE, "append2")

\* line 76
Append2 == AppendAx("append2", "subplot3")

\* lines 78-79: ax = fig.add_subplot(3, 1, 3); ax.set_title("Score")
Subplot3 ==
    /\ pc = "subplot3"
    /\ fig' = AddSubplot(fig, 3, "Score")
    /\ ax' = Len(fig'.axes)
    /\ Goto("plot3")
    /\ UNCHANGED <<env, data, anomaly_points, t_anomalies, t, axs, k,
                   accessed, reads, saved, shown>>

\* line 80: ax.plot(t, data["score"])
Plot3 == PlotColumn("plot3", data, t, "score", FALSE, FALSE, "overlay3")

\* lines 81-83
Overlay3 == PlotColumn("overlay3", anomaly_points, t_anomalies, "score", FALSE, TRUE, "axhline")

\* lines 84-85: if threshold: ax.axhline(y=threshold, color="red", linestyle="--")
AxHLine ==
    /\ pc = "axhline"
    /\ fig' = IF Truthy(args.threshold)
              THEN [fig EXCEPT !.axes[ax].hlines = Append(@, HLine(args.threshold[1]))]
              ELSE fig
    /\ Goto("append3")
    /\ UNCHANGED <<env, data, anomaly_points, t_anomalies, t, ax, axs, k,
                   accessed, reads, saved, shown>>

\* line 86; the loop of line 88 starts at the first element of axs
Append3 ==
    /\ pc = "append3"
    /\ axs' = Append(axs, ax)
    /\ k' = 1
    /\ Goto("format")
    /\ UNCHANGED <<env, data, anomaly_points, t_anomalies, t, fig, ax,
                   accessed, reads, saved, shown>>

MajorHours == {0, 6, 12, 18}
DateFormat == "%Y-%m-%d %H:%M"

\* lines 89-91 on one Axes
FormatAxis(a) ==
    [a EXCEPT !.major = HourLocator(MajorHours, 1),
              !.minor = HourLocator(EveryHour, 1),
              !.formatter = DateFormat]

\* Variant of Format: the body formats the Axes that ax held before the loop
FormatStale ==
    /\ pc = "format"
    /\ IF k <= Len(axs)
       THEN /\ fig' = [fig EXCEPT !.axes[ax] = FormatAxis(@)]
            /\ k' = k + 1
            /\ Goto("format")
            /\ UNCHANGED ax
       ELSE /\ Goto("autofmt")
            /\ UNCHANGED <<ax, fig, k>>
    /\ UNCHANGED <<env, data, anomaly_points, t_anomalies, t, axs,
                   accessed, reads, saved, shown>>

\* lines 88-91: one pass of "for ax in axs", or the end of the loop
Format ==
    /\ pc = "format"
    /\ IF k <= Len(axs)
       THEN /\ ax' = axs[k]
            /\ fig' = [fig EXCEPT !.axes[axs[k]] = FormatAxis(@)]
            /\ k' = k + 1
            /\ Goto("format")
       ELSE /\ Goto("autofmt")
            /\ UNCHANGED <<ax, fig, k>>
    /\ UNCHANGED <<env, data, anomaly_points, t_anomalies, t, axs,
                   accessed, reads, saved, shown>>

\* fig.autofmt_xdate(): the tick labels of the bottom row are rotated and
\* right-aligned, those of the other rows are hidden
AutofmtAxis(a) ==
    IF IsLastRow(a)
    THEN [a EXCEPT !.ticklabels = [visible |-> TRUE, rotation |-> 30, ha |-> "right"]]
    ELSE [a EXCEPT !.ticklabels.visible = FALSE]

\* line 93
Autofmt ==
    /\ pc = "autofmt"
    /\ fig' = [fig EXCEPT !.axes = [j \in 1..Len(fig.axes) |-> AutofmtAxis(fig.axes[j])]]
    /\ Goto("savefig")
    /\ UNCHANGED <<env, data, anomaly_points, t_anomalies, t, ax, axs, k,
                   accessed, reads, saved, shown>>

\* line 95: plt.savefig(args.output), the destination being writable
SaveFig ==
    /\ pc = "savefig"
    /\ saved' = Append(saved, [path |-> args.output, image |-> fig])
    /\ Goto("show")
    /\ UNCHANGED <<env, data, anomaly_points, t_anomalies, t, fig, ax, axs, k,
                   accessed, reads, shown>>

\* line 95 when the destination cannot be written: OSError, nothing saved
SaveFigFails ==
    /\ pc = "savefig"
    /\ Raise("OSError", args.output)
    /\ UNCHANGED <<env, data, anomaly_points, t_anomalies, t, fig, ax, axs, k,
                   accessed, reads, saved, shown>>

\* Variant of Show: the viewer opens whatever --show says
ShowAlways ==
    /\ pc = "show"
    /\ shown' = Append(shown, fig)
    /\ pc' = "done"
    /\ exit' = <<0>>
    /\ UNCHANGED <<env, data, anomaly_points, t_anomalies, t, fig, ax, axs, k,
                   accessed, reads, saved, error>>

\* lines 96-97: if args.show: plt.show(); then main() returns, exit status 0
Show ==
    /\ pc = "show"
    /\ shown' = IF args.show THEN Append(shown, fig) ELSE shown
    /\ pc' = "done"
    /\ exit' = <<0>>
    /\ UNCHANGED <<env, data, anomaly_points, t_anomalies, t, fig, ax, axs, k,
                   accessed, reads, saved, error>>

Next ==
    \/ ReadCsv
    \/ Filter
    \/ ToDatetimeAnomalies
    \/ Figure
    \/ ToDatetimeAll
    \/ Subplot1
    \/ Plot1
    \/ Overlay1
    \/ Append1
    \/ Subplot2
    \/ Plot2
    \/ Overlay2
    \/ Append2
    \/ Subplot3
    \/ Plot3
    \/ Overlay3
    \/ AxHLine
    \/ Append3
    \/ Format
    \/ Autofmt
    \/ SaveFig
    \/ SaveFigFails
    \/ Show

Spec == Init /\ [][Next]_vars

----------------------------------------------------------------------------
(* Two invocations on the same CSV text, one per input channel *)

\* The program is started again with the same options and the same CSV
\* text, which is now supplied on the other channel.  prev keeps what the
\* first invocation built.
Reinvoke ==
    /\ pc \in {"done", "failed"}
    /\ run = 1
    /\ run' = 2
    /\ prev' = [fig |-> fig, error |-> error, pc |-> pc, path |-> args.path]
    /\ \E p \in Paths \ {args.path} :
          /\ args' = [args EXCEPT !.path = p]
          /\ channels' = [c \in ChannelNames |->
                            IF c = ChannelFor(p) THEN channels[ChannelFor(args.path)]
                            ELSE Unreadable]
    /\ pc' = "read_csv"
    /\ data' = EmptyFrame
    /\ anomaly_points' = EmptyFrame
    /\ t_anomalies' = <<>>
    /\ t' = <<>>
    /\ fig' = NoFigure
    /\ ax' = 0
    /\ axs' = <<>>
    /\ k' = 0
    /\ accessed' = <<>>
    /\ reads' = 0
    /\ saved' = <<>>
    /\ shown' = <<>>
    /\ exit' = <<>>
    /\ error' = NoError
    /\ UNCHANGED inferFormat

NextPair == Next \/ Reinvoke

SpecPair == Init /\ [][NextPair]_vars

----------------------------------------------------------------------------
(* Vocabulary of the properties *)

\* The CSV text given to this invocation
Input == channels[ChannelFor(args.path)]

\* The figure is complete and line 95 has been reached
ReachedWrite ==
    \/ pc \in {"savefig", "show", "done"}
    \/ pc = "failed" /\ error.class = "OSError"

\* Lines 78-85 have run
ScorePanelDrawn == pc \in {"append3", "format", "autofmt"} \/ ReachedWrite

Order == <<"output", "Time", "value", "saliency", "score">>

Pos(c) == CHOOSE i \in 1..Len(Order) : Order[i] = c

IsAnomalous(row) == row["output"] = 1

\* Input rows flagged as anomalies, and the place of row i among them
AnomalousRows == {i \in 1..Len(Input.rows) : IsAnomalous(Input.rows[i])}
Rank(i) == Cardinality({j \in AnomalousRows : j <= i})

\* The two series of panel p, once plotted
HasLine(p) == Len(fig.axes) >= p /\ Len(fig.axes[p].lines) >= 1
HasOverlay(p) == Len(fig.axes) >= p /\ Len(fig.axes[p].lines) >= 2
LineOf(p) == fig.axes[p].lines[1]
OverlayOf(p) == fig.axes[p].lines[2]

PanelColumn(p) == CASE p = 1 -> "value" [] p = 2 -> "saliency" [] OTHER -> "score"

----------------------------------------------------------------------------
(* C1 *)

\* C1: once the score panel is drawn, it has no horizontal line when
\* --threshold is absent, and exactly one dashed horizontal line at y = T
\* when --threshold is T, for every T including 0 and negative T.
C1_ThresholdLine ==
    ScorePanelDrawn =>
        LET lines == fig.axes[3].hlines IN
        IF args.threshold = <<>>
        THEN lines = <<>>
        ELSE /\ Len(lines) = 1
             /\ lines[1].y = args.threshold[1]
             /\ lines[1].linestyle = "--"

----------------------------------------------------------------------------
(* C2 *)

\* A Time cell that no parser accepts
HasBadTime(content) ==
    /\ "Time" \in content.columns
    /\ \E i \in 1..Len(content.rows) : ~DateutilParse(content.rows[i]["Time"]).ok

BadInput ==
    \/ ~Input.readable
    \/ Input.columns # Columns
    \/ HasBadTime(Input)

\* C2: when the input cannot be loaded, lacks a required column or holds an
\* unparseable Time, the run reads the input at most once, never reaches
\* the write step, writes and shows nothing, and can only end as a failure
\* with a nonzero exit status.  Every failure, whatever its cause, leaves
\* nothing written or shown and exits nonzero.
C2_FailureAborts ==
    /\ BadInput =>
          /\ reads <= 1
          /\ pc \notin {"savefig", "show", "done"}
          /\ saved = <<>>
          /\ shown = <<>>
          /\ (~ENABLED Next) => pc = "failed"
    /\ pc = "failed" =>
          /\ exit # <<>>
          /\ exit[1] # 0
          /\ saved = <<>>
          /\ shown = <<>>
          /\ ~ENABLED Next

\* The score column alone is missing and the run has failed on it
C2_Witness ==
    /\ Input.readable
    /\ Input.columns = Columns \ {"score"}
    /\ pc = "failed"
    /\ error = [class |-> "KeyError", key |-> "score"]
    /\ Len(fig.axes) = 3

----------------------------------------------------------------------------
(* C3 *)

\* C3: the Anomaly Subset holds exactly the input rows whose output is 1,
\* in order and unchanged, and every red marker of a panel lies on a point
\* of that panel's line series.
C3_AnomalySubset ==
    /\ pc \notin {"read_csv", "filter", "failed"} =>
          /\ Len(anomaly_points.rows) = Cardinality(AnomalousRows)
          /\ \A i \in AnomalousRows : anomaly_points.rows[Rank(i)] = Input.rows[i]
    /\ \A p \in 1..3 :
          HasOverlay(p) =>
             \A j \in 1..Len(OverlayOf(p).x) :
                \E i \in 1..Len(LineOf(p).x) :
                   /\ LineOf(p).x[i] = OverlayOf(p).x[j]
                   /\ LineOf(p).y[i] = OverlayOf(p).y[j]

----------------------------------------------------------------------------
(* C4 *)

\* C4: a row whose output is not 1 is absent from the Anomaly Subset and
\* from every marker overlay, is a point of every line series, and the
\* step that compares output with 1 fails only when the column is missing:
\* every failure is a load failure, a missing column, a Time that does not
\* parse, or a write failure.
C4_NonAnomalousRows ==
    /\ pc \notin {"read_csv", "filter", "failed"} =>
          \A i \in 1..Len(Input.rows) :
             ~IsAnomalous(Input.rows[i]) =>
                \A j \in 1..Len(anomaly_points.index) : anomaly_points.index[j] # i - 1
    /\ \A p \in 1..3 :
          /\ HasOverlay(p) => Len(OverlayOf(p).y) = Cardinality(AnomalousRows)
          /\ HasLine(p) => Len(LineOf(p).y) = Len(Input.rows)
    /\ pc = "failed" =>
          \/ error.class = "ParserError" /\ ~Input.readable
          \/ error.class = "KeyError" /\ error.key \notin Input.columns
          \/ error.class = "ValueError" /\ error.key = "Time"
          \/ error.class = "OSError"

\* A finished run on two rows whose flags are 2 and 0
C4_Witness ==
    /\ pc = "done"
    /\ Len(Input.rows) = 2
    /\ Input.rows[1]["output"] = 2
    /\ Input.rows[2]["output"] = 0
    /\ Len(LineOf(3).y) = 2
    /\ Len(OverlayOf(3).y) = 0

----------------------------------------------------------------------------
(* C5 *)

\* C5: for every input row, panel 1 plots value / 1000 and panels 2 and 3
\* plot saliency and score as they are, in the line series and, for the
\* anomalous rows, in the marker overlay.
C5_PlottedValues ==
    \A p \in 1..3 :
       LET factor == IF p = 1 THEN 1000 ELSE 1
           col == PanelColumn(p)
       IN  /\ HasLine(p) =>
                /\ Len(LineOf(p).y) = Len(Input.rows)
                /\ \A i \in 1..Len(Input.rows) :
                      LineOf(p).y[i] * factor = Input.rows[i][col]
           /\ HasOverlay(p) =>
                /\ Len(OverlayOf(p).y) = Cardinality(AnomalousRows)
                /\ \A i \in AnomalousRows :
                      OverlayOf(p).y[Rank(i)] * factor = Input.rows[i][col]

\* A finished run on two rows, the second one anomalous
C5_Witness ==
    /\ pc = "done"
    /\ Len(Input.rows) = 2
    /\ AnomalousRows = {2}
    /\ LineOf(1).y = <<1000, 2000>>
    /\ OverlayOf(1).y = <<2000>>
    /\ OverlayOf(3).y = <<250>>

----------------------------------------------------------------------------
(* C6 *)

\* C6: the second invocation, which receives the same CSV text on the
\* other channel with the same options, ends with the same figure (data
\* points, markers, threshold line) as the first and fails on the data
\* exactly when the first did, with the same exception.
C6_ChannelIndependent ==
    (run = 2 /\ pc \in {"done", "failed"}) =>
        /\ fig = prev.fig
        /\ (error.class = "OSError" \/ prev.error.class = "OSError" \/ error = prev.error)

\* A file run followed by a finished stdin run, with a marker and a threshold line
C6_Witness ==
    /\ run = 2
    /\ prev.path = "data.csv"
    /\ args.path = "-"
    /\ pc = "done"
    /\ Len(OverlayOf(3).y) = 1
    /\ Len(fig.axes[3].hlines) = 1

----------------------------------------------------------------------------
(* C7 *)

Complete(f) ==
    /\ Len(f.axes) = 3
    /\ \A j \in 1..3 :
          /\ Len(f.axes[j].lines) = 2
          /\ f.axes[j].major.kind = "HourLocator"
          /\ f.axes[j].ticklabels.visible = (j = 3)

\* C7: a successful run has written the complete figure to the output path
\* exactly once, has opened the viewer exactly when --show was given, and
\* exits with status 0; nothing is written before the panels and the axis
\* formatting are complete, nothing is written twice, and the viewer never
\* opens before the write.
C7_WriteThenShow ==
    /\ pc = "done" =>
          /\ Len(saved) = 1
          /\ saved[1].path = args.output
          /\ saved[1].image = fig
          /\ Len(shown) = (IF args.show THEN 1 ELSE 0)
          /\ exit = <<0>>
    /\ saved # <<>> =>
          /\ Len(saved) = 1
          /\ pc \in {"show", "done"}
          /\ Complete(saved[1].image)
    /\ shown # <<>> => (Len(saved) = 1 /\ pc = "done" /\ args.show)

\* A finished run with --show
C7_Witness ==
    /\ pc = "done"
    /\ args.show
    /\ Len(saved) = 1
    /\ Len(shown) = 1

----------------------------------------------------------------------------
(* C8 *)

\* C8: a figure that reaches the write step has exactly three panels, in
\* the order value (title = name), saliency ("Saliency Map"), score
\* ("Score"), and each panel has major ticks at hours 0, 6, 12, 18, minor
\* ticks at every hour and major labels formatted %Y-%m-%d %H:%M.
C8_PanelsAndAxes ==
    ReachedWrite =>
        /\ Len(fig.axes) = 3
        /\ axs = <<1, 2, 3>>
        /\ fig.axes[1].title = args.name
        /\ fig.axes[2].title = "Saliency Map"
        /\ fig.axes[3].title = "Score"
        /\ \A j \in 1..3 :
              /\ fig.axes[j].geometry[3] = j
              /\ fig.axes[j].major = [kind |-> "HourLocator", byhour |-> {0, 6, 12, 18}, interval |-> 1]
              /\ fig.axes[j].minor = [kind |-> "HourLocator", byhour |-> 0..23, interval |-> 1]
              /\ fig.axes[j].formatter = "%Y-%m-%d %H:%M"

\* A written figure whose first panel carries a title given with --name
C8_Witness ==
    /\ pc = "done"
    /\ args.name = "cpu"
    /\ saved # <<>>
    /\ saved[1].image.axes[1].title = "cpu"

----------------------------------------------------------------------------
(* C9 *)

\* C9 as stated: the figure that reaches the write step has exactly three
\* vertically stacked subplots and each of them measures 12.8 x 9.6.
C9_EachSubplotFullSize ==
    ReachedWrite =>
        /\ Len(fig.axes) = 3
        /\ \A j \in 1..3 :
              /\ fig.axes[j].geometry = <<3, 1, j>>
              /\ CellSize(fig, fig.axes[j]) = <<128, 96>>

\* C9 amended: the figure as a whole measures 12.8 x 9.6 and holds exactly
\* three subplots stacked in a grid of three rows and one column, so each
\* subplot has the full width and one third of the height at most.
C9_FigureSize ==
    ReachedWrite =>
        /\ fig.figsize = <<128, 96>>
        /\ Len(fig.axes) = 3
        /\ \A j \in 1..3 :
              /\ fig.axes[j].geometry = <<3, 1, j>>
              /\ CellSize(fig, fig.axes[j]) = <<128, 32>>

\* A written figure
C9_Witness ==
    /\ pc = "show"
    /\ Len(saved) = 1
    /\ Len(saved[1].image.axes) = 3
    /\ saved[1].image.figsize = <<128, 96>>

----------------------------------------------------------------------------
(* C10 *)

Missing == Columns \ Input.columns

\* The first required column, in the order of first reference, that is missing
FirstMissing == Order[CHOOSE i \in 1..Len(Order) :
                        /\ Order[i] \in Missing
                        /\ \A j \in 1..(i - 1) : Order[j] \notin Missing]

\* Panels created before the first reference to column c
PanelsBefore(c) ==
    CASE c = "value" -> 1 [] c = "saliency" -> 2 [] c = "score" -> 3 [] OTHER -> 0

\* C10: columns are looked up in the order output, Time, value, saliency,
\* score, and only when a statement needs them: loading succeeds whatever
\* columns are missing, the run fails with a key error on the first missing
\* column of that order, and by then no later column has been looked up
\* and nothing has been plotted on the panel of the missing column or on a
\* later panel.
C10_LazyColumnOrder ==
    /\ \A i \in 1..Len(accessed) : \A j \in i..Len(accessed) :
          Pos(accessed[i]) <= Pos(accessed[j])
    /\ (Input.readable /\ pc = "failed" /\ error.class # "ValueError") =>
          (Missing # {} \/ error.class = "OSError")
    /\ (Input.readable /\ Missing # {} /\ pc # "failed") =>
          \A i \in 1..Len(accessed) : Pos(accessed[i]) < Pos(FirstMissing)
    /\ (pc = "failed" /\ error.class = "KeyError") =>
          /\ Missing # {}
          /\ error.key = FirstMissing
          /\ accessed[Len(accessed)] = FirstMissing
          /\ Len(fig.axes) = PanelsBefore(FirstMissing)
          /\ \A p \in 1..Len(fig.axes) :
                Len(fig.axes[p].lines) = (IF p < PanelsBefore(FirstMissing) THEN 2 ELSE 0)

\* saliency and score are both missing: the run failed on saliency
C10_Witness ==
    /\ Input.readable
    /\ Missing = {"saliency", "score"}
    /\ pc = "failed"
    /\ error = [class |-> "KeyError", key |-> "saliency"]
    /\ Len(fig.axes) = 2

====
